---- MODULE Spec2Model ----
(***************************************************************************)
(* Model of src/server/pipeline/match_data.py: the record-linkage core of  *)
(* the PAWS data pipeline.                                                 *)
(*                                                                         *)
(* A pandas DataFrame is modelled as a record                              *)
(*     [cols |-> <<column names, in order>>, rows |-> <<row, ...>>]        *)
(* where a row is a function from the column names to cells and the row's  *)
(* position in rows is its (Range)Index label.  A cell is a sequence of    *)
(* one-character strings (a Python str); the missing value (NaN / NULL) is *)
(* the distinguished cell NaN.                                             *)
(***************************************************************************)
EXTENDS Integers, Sequences, FiniteSets, TLC

VARIABLES
    \* join_on_all_columns(master_df, table_to_join), called on its own
    jpc, jA, jB, jOut,
    \* coalesce_fields_by_id(master_table, other_tables, fields), called on
    \* its own: cDf is df_with_updated_fields, cK the position of the loop
    \* over other_tables
    cpc, cMaster, cTables, cDf, cK,
    \* start(connection, added_or_updated_rows)
    pc,             \* where the call is
    batch,          \* added_or_updated_rows
    registry,       \* DATASOURCE_MAPPING
    store,          \* the tables behind connection
    storeReads,     \* the tables read through connection so far, in order
    k,              \* position of the running loop over MATCH_PRIORITY
    new_df, master_df, source_dfs,
    parts,          \* (matches, left_only, right_only)
    result,         \* the returned dict
    error           \* the exception that ended the call

joinVars == <<jpc, jA, jB, jOut>>
coalesceVars == <<cpc, cMaster, cTables, cDf, cK>>
startVars == <<pc, batch, registry, store, storeReads, k, new_df, master_df,
               source_dfs, parts, result, error>>

\* ------------------------------------------------------------------------
\* Cells and strings
\* ------------------------------------------------------------------------

\* numpy.nan / SQL NULL: no Python str is spelled by this one "character".
NaN == <<"NaN">>

\* The characters the model uses, in code point order (Python orders str by
\* code point: space < digits < upper case < lower case).
CharOrder == <<" ", "1", "2", "3", "5", "7", "8", "9", "A", "B", "D", "J",
               "a", "b", "c", "d", "j", "n", "z">>

CodePoint(c) == CHOOSE i \in 1..Len(CharOrder) : CharOrder[i] = c

\* str.lower() on one character.
LowerChar(c) ==
    CASE c = "A" -> "a"
      [] c = "B" -> "b"
      [] c = "D" -> "d"
      [] c = "J" -> "j"
      [] OTHER -> c

\* str.lower()
Lower(s) == [i \in 1..Len(s) |-> LowerChar(s[i])]

IsSpace(c) == c = " "

RECURSIVE LStrip(_)
LStrip(s) == IF s # <<>> /\ IsSpace(Head(s)) THEN LStrip(Tail(s)) ELSE s

RECURSIVE RStrip(_)
RStrip(s) ==
    IF s # <<>> /\ IsSpace(s[Len(s)]) THEN RStrip(SubSeq(s, 1, Len(s) - 1)) ELSE s

\* str.strip()
Strip(s) == RStrip(LStrip(s))

\* astype(str): a str is itself, NaN becomes the three characters "nan".
AsStr(v) == IF v = NaN THEN <<"n", "a", "n">> ELSE v

\* Python's < on str.
RECURSIVE StrLess(_, _)
StrLess(s, t) ==
    IF t = <<>> THEN FALSE
    ELSE IF s = <<>> THEN TRUE
    ELSE IF Head(s) = Head(t) THEN StrLess(Tail(s), Tail(t))
    ELSE CodePoint(Head(s)) < CodePoint(Head(t))

\* The order pandas sorts join keys in: values ascending, nulls last.
CellLess(u, v) ==
    IF u = NaN THEN FALSE
    ELSE IF v = NaN THEN TRUE
    ELSE StrLess(u, v)

\* ------------------------------------------------------------------------
\* DataFrames
\* ------------------------------------------------------------------------

Range(s) == {s[i] : i \in 1..Len(s)}

RECURSIVE Flatten(_)
Flatten(ss) == IF ss = <<>> THEN <<>> ELSE Head(ss) \o Flatten(Tail(ss))

\* pd.DataFrame({col: [] for col in cols})
EmptyFrame(cols) == [cols |-> cols, rows |-> <<>>]

\* df[col] = value  (scalar broadcast; a new column is appended)
SetColumn(row, col, v) ==
    [c \in DOMAIN row \cup {col} |-> IF c = col THEN v ELSE row[c]]

AddCol(cols, col) == IF col \in Range(cols) THEN cols ELSE Append(cols, col)

\* df[[c1, c2, ...]]: KeyError unless every column exists.
CanSelect(df, cols) == Range(cols) \subseteq Range(df.cols)

Select(df, cols) ==
    [cols |-> cols,
     rows |-> [i \in 1..Len(df.rows) |-> [c \in Range(cols) |-> df.rows[i][c]]]]

\* df.drop(columns=cols)
Drop(df, cols) ==
    LET keep == SelectSeq(df.cols, LAMBDA c : c \notin Range(cols))
    IN  Select(df, keep)

\* df.rename(columns={old: new})
Rename(df, old, new) ==
    LET nm(c) == IF c = old THEN new ELSE c
    IN  [cols |-> [i \in 1..Len(df.cols) |-> nm(df.cols[i])],
         rows |-> [i \in 1..Len(df.rows) |->
                     [c \in {nm(d) : d \in Range(df.cols)} |->
                        IF c = new /\ old \in Range(df.cols)
                        THEN df.rows[i][old] ELSE df.rows[i][c]]]]

\* ------------------------------------------------------------------------
\* DataFrame.merge(right, how=..., indicator=...) with on=None: an equality
\* join on the columns the two frames share.  Null keys match each other.
\* ------------------------------------------------------------------------

MergeOn(left, right) == SelectSeq(left.cols, LAMBDA c : c \in Range(right.cols))

MergeCols(left, right) ==
    left.cols \o SelectSeq(right.cols, LAMBDA c : c \notin Range(left.cols))

KeysEqual(l, r, on) == \A c \in Range(on) : l[c] = r[c]

\* Lexicographic order of two rows on the key columns `on`.
RECURSIVE KeyLess(_, _, _)
KeyLess(l, r, on) ==
    IF on = <<>> THEN FALSE
    ELSE IF l[Head(on)] = r[Head(on)] THEN KeyLess(l, r, Tail(on))
    ELSE CellLess(l[Head(on)], r[Head(on)])

\* Stable insertion of x into the key-sorted sequence s.
RECURSIVE InsertByKey(_, _, _)
InsertByKey(x, s, on) ==
    IF s = <<>> THEN <<x>>
    ELSE IF KeyLess(x.row, Head(s).row, on) THEN <<x>> \o s
    ELSE <<Head(s)>> \o InsertByKey(x, Tail(s), on)

RECURSIVE SortByKey(_, _)
SortByKey(s, on) ==
    IF s = <<>> THEN <<>>
    ELSE InsertByKey(s[Len(s)], SortByKey(SubSeq(s, 1, Len(s) - 1), on), on)

\* The joined rows, each tagged with the indicator pandas would put in the
\* _merge column: "both", "left_only" or "right_only".
MergeTagged(left, right, how) ==
    LET on == MergeOn(left, right)
        cols == Range(MergeCols(left, right))
        lcols == Range(left.cols)
        rcols == Range(right.cols)
        both(l, r) == [row |-> [c \in cols |-> IF c \in lcols THEN l[c] ELSE r[c]],
                       ind |-> "both"]
        lonly(l) == [row |-> [c \in cols |-> IF c \in lcols THEN l[c] ELSE NaN],
                     ind |-> "left_only"]
        ronly(r) == [row |-> [c \in cols |-> IF c \in rcols THEN r[c] ELSE NaN],
                     ind |-> "right_only"]
        hits(l) == SelectSeq(right.rows, LAMBDA r : KeysEqual(l, r, on))
        forLeft(l) ==
            IF hits(l) # <<>>
            THEN [j \in 1..Len(hits(l)) |-> both(l, hits(l)[j])]
            ELSE IF how \in {"left", "outer"} THEN <<lonly(l)>> ELSE <<>>
        leftPart == Flatten([i \in 1..Len(left.rows) |-> forLeft(left.rows[i])])
        unhit == SelectSeq(right.rows,
                    LAMBDA r : \A i \in 1..Len(left.rows) :
                                  ~KeysEqual(left.rows[i], r, on))
        rightPart == IF how = "outer"
                     THEN [j \in 1..Len(unhit) |-> ronly(unhit[j])]
                     ELSE <<>>
    IN  IF how = "outer" THEN SortByKey(leftPart \o rightPart, on)
        ELSE leftPart \o rightPart

Merge(left, right, how) ==
    LET t == MergeTagged(left, right, how)
    IN  [cols |-> MergeCols(left, right),
         rows |-> [i \in 1..Len(t) |-> t[i].row]]

\* ------------------------------------------------------------------------
\* join_on_all_columns
\* ------------------------------------------------------------------------

\* Indicated with the join run as how='left'.
IndicatedLeftJoin(left, right, ind) ==
    LET t == SelectSeq(MergeTagged(left, right, "left"), LAMBDA x : x.ind = ind)
    IN  [cols |-> MergeCols(left, right),
         rows |-> [i \in 1..Len(t) |-> t[i].row]]

\* join_results[join_results['_merge'] == ind].drop(columns='_merge')
Indicated(left, right, ind) ==
    LET t == SelectSeq(MergeTagged(left, right, "outer"), LAMBDA x : x.ind = ind)
    IN  [cols |-> MergeCols(left, right),
         rows |-> [i \in 1..Len(t) |-> t[i].row]]

\* join_on_all_columns with left_only and right_only returned in each
\* other's place.
join_on_all_columns_swapped(master, table_to_join) ==
    [matched |-> Indicated(master, table_to_join, "both"),
     onlyA   |-> Indicated(master, table_to_join, "right_only"),
     onlyB   |-> Indicated(master, table_to_join, "left_only")]

join_on_all_columns(master, table_to_join) ==
    [matched |-> Indicated(master, table_to_join, "both"),
     onlyA   |-> Indicated(master, table_to_join, "left_only"),
     onlyB   |-> Indicated(master, table_to_join, "right_only")]

\* ------------------------------------------------------------------------
\* coalesce_fields_by_id
\* ------------------------------------------------------------------------

\* df[field] = np.nan for every field
RECURSIVE BlankFields(_, _)
BlankFields(df, fields) ==
    IF fields = <<>> THEN df
    ELSE BlankFields(
            [cols |-> AddCol(df.cols, Head(fields)),
             rows |-> [i \in 1..Len(df.rows) |->
                         SetColumn(df.rows[i], Head(fields), NaN)]],
            Tail(fields))

\* df[field] = df[field].combine_first(other[field]): both Series carry a
\* RangeIndex, so the value at label i is df's unless it is null, and then
\* other's at the same label i (null when other has no label i); the
\* assignment keeps df's labels only.
CombineFirst(df, other, field) ==
    [cols |-> df.cols,
     rows |-> [i \in 1..Len(df.rows) |->
                 IF df.rows[i][field] # NaN THEN df.rows[i]
                 ELSE SetColumn(df.rows[i], field,
                        IF i <= Len(other.rows) THEN other.rows[i][field]
                        ELSE NaN)]]

RECURSIVE CombineFields(_, _, _)
CombineFields(df, other, fields) ==
    IF fields = <<>> THEN df
    ELSE CombineFields(CombineFirst(df, other, Head(fields)), other, Tail(fields))

\* One pass of `for table in other_tables`.
CoalesceTable(df, master_table, table, fields) ==
    LET fields_from_table == Merge(master_table, table, "left")
    IN  CombineFields(df, fields_from_table, fields)

RECURSIVE CoalesceTables(_, _, _, _)
CoalesceTables(df, master_table, other_tables, fields) ==
    IF other_tables = <<>> THEN df
    ELSE CoalesceTables(CoalesceTable(df, master_table, Head(other_tables), fields),
                        master_table, Tail(other_tables), fields)

coalesce_fields_by_id(master_table, other_tables, fields) ==
    CoalesceTables(BlankFields(master_table, fields), master_table,
                   other_tables, fields)

\* ------------------------------------------------------------------------
\* normalize_table_for_comparison, combine_fields, _reassign_combined_fields
\* ------------------------------------------------------------------------

\* .astype(str).str.strip().str.lower() on one cell
NormalizeCell(v) == Lower(Strip(AsStr(v)))

RECURSIVE normalize_table_for_comparison(_, _)
normalize_table_for_comparison(df, cols) ==
    IF cols = <<>> THEN df
    ELSE normalize_table_for_comparison(
            [cols |-> df.cols,
             rows |-> [i \in 1..Len(df.rows) |->
                         SetColumn(df.rows[i], Head(cols),
                                   NormalizeCell(df.rows[i][Head(cols)]))]],
            Tail(cols))

\* A field specification of the registry is a str (one column name) or a
\* list of column names: [kind |-> "str", cols |-> <<c>>] or
\* [kind |-> "list", cols |-> <<c1, ...>>].
StrSpec(c) == [kind |-> "str", cols |-> <<c>>]
ListSpec(cs) == [kind |-> "list", cols |-> cs]

\* Series.str.cat(others=..., sep=sep) on one row: null as soon as one of the
\* parts is null.
RECURSIVE StrCat(_, _, _)
StrCat(row, cols, sep) ==
    IF \E i \in 1..Len(cols) : row[cols[i]] = NaN THEN NaN
    ELSE IF Len(cols) = 1 THEN row[cols[1]]
    ELSE row[cols[1]] \o sep \o StrCat(row, Tail(cols), sep)

\* The column combine_fields returns, as the sequence of its cells.
combine_fields(df, fields, sep) ==
    [i \in 1..Len(df.rows) |->
        IF fields.kind = "str" THEN df.rows[i][fields.cols[1]]
        ELSE IF Len(fields.cols) = 1 THEN df.rows[i][fields.cols[1]]
        ELSE StrCat(df.rows[i], fields.cols, sep)]

\* combine_fields raises KeyError when df lacks a column it reads.
CombineRaises(df, fields) == ~(Range(fields.cols) \subseteq Range(df.cols))

\* out_df[new_field] = column
AssignColumn(df, new_field, column) ==
    [cols |-> AddCol(df.cols, new_field),
     rows |-> [i \in 1..Len(df.rows) |-> SetColumn(df.rows[i], new_field, column[i])]]

\* field_mapping is the sequence of the dict's items, in insertion order.
RECURSIVE _reassign_combined_fields(_, _)
_reassign_combined_fields(df, field_mapping) ==
    IF field_mapping = <<>> THEN df
    ELSE _reassign_combined_fields(
            AssignColumn(df, Head(field_mapping).new,
                         combine_fields(df, Head(field_mapping).old, <<" ">>)),
            Tail(field_mapping))

RECURSIVE ReassignRaises(_, _)
ReassignRaises(df, field_mapping) ==
    IF field_mapping = <<>> THEN FALSE
    ELSE IF CombineRaises(df, Head(field_mapping).old) THEN TRUE
    ELSE ReassignRaises(
            [cols |-> AddCol(df.cols, Head(field_mapping).new), rows |-> <<>>],
            Tail(field_mapping))

\* ------------------------------------------------------------------------
\* Module constants and the small helpers of start
\* ------------------------------------------------------------------------

MATCH_FIELDS == <<"email", "name">>

\* MATCH_MAPPING.items(): (master column, registry key)
MATCH_MAPPING == <<[master_col |-> "email", table_col |-> "table_email"],
                   [master_col |-> "name", table_col |-> "_table_name"]>>

\* MATCH_PRIORITY without its last source.
MATCH_PRIORITY_short == <<"salesforcecontacts", "volgistics">>

MATCH_PRIORITY == <<"salesforcecontacts", "volgistics", "petpoint">>

\* DATASOURCE_MAPPING[source_name]['id']
_get_table_primary_key(mapping, source_name) == mapping[source_name]["id"]

\* source_name + '_id'
_get_master_primary_key(source_name) ==
    CASE source_name = "salesforcecontacts" -> "salesforcecontacts_id"
      [] source_name = "volgistics" -> "volgistics_id"
      [] source_name = "petpoint" -> "petpoint_id"

\* {master_col: DATASOURCE_MAPPING[table][table_col]
\*  for master_col, table_col in MATCH_MAPPING.items()}
FieldMapping(mapping, table) ==
    [i \in 1..Len(MATCH_MAPPING) |->
        [new |-> MATCH_MAPPING[i].master_col,
         old |-> mapping[table][MATCH_MAPPING[i].table_col]]]

\* 'select * from {table_name} where archived_date is null'
_get_most_recent_table_records_from_postgres(connection, table_name) ==
    [cols |-> connection[table_name].cols,
     rows |-> SelectSeq(connection[table_name].rows,
                        LAMBDA r : r["archived_date"] = NaN)]

\* pd.DataFrame(records): the columns are the keys of the records; an empty
\* list gives a frame without columns.
DataFrameOf(records, cols) ==
    IF records = <<>> THEN [cols |-> <<>>, rows |-> <<>>]
    ELSE [cols |-> cols, rows |-> records]

\* ------------------------------------------------------------------------
\* The source registry, DATASOURCE_MAPPING of datasource_manager
\* ------------------------------------------------------------------------

RegistryEntry(id, table_email, table_name) ==
    [key \in {"id", "table_email", "_table_name"} |->
        CASE key = "id" -> id
          [] key = "table_email" -> table_email
          [] key = "_table_name" -> table_name]

\* Per source: its primary-key column and the column(s) behind each tracked
\* field.  The name of salesforcecontacts is composed of two columns.
DATASOURCE_MAPPING ==
    [source_name \in {"salesforcecontacts", "volgistics", "petpoint"} |->
        CASE source_name = "salesforcecontacts" ->
                RegistryEntry("contact_id", StrSpec("email"),
                              ListSpec(<<"first_name", "last_name">>))
          [] source_name = "volgistics" ->
                RegistryEntry("number", StrSpec("email_address"),
                              ListSpec(<<"full_name">>))
          [] source_name = "petpoint" ->
                RegistryEntry("outcome_person_id", StrSpec("email"),
                              StrSpec("name"))]

\* The columns of a source's rows, in order.
RawCols(source_name) ==
    CASE source_name = "salesforcecontacts" ->
            <<"contact_id", "email", "first_name", "last_name">>
      [] source_name = "volgistics" -> <<"number", "email_address", "full_name">>
      [] source_name = "petpoint" -> <<"outcome_person_id", "email", "name">>
      [] OTHER -> <<"id", "email", "name">>

StoreCols(source_name) == RawCols(source_name) \o <<"created_date", "archived_date">>

MasterCols == <<"_id", "salesforcecontacts_id", "volgistics_id", "petpoint_id",
                "created_date", "archived_date">>

\* ------------------------------------------------------------------------
\* Inputs of the model
\* ------------------------------------------------------------------------

\* Longest row sequence handed to join_on_all_columns on its own.
MaxJoinRows == 3

\* Longest master table handed to coalesce_fields_by_id on its own.
MaxMasterRows == 2

\* Longest source table handed to coalesce_fields_by_id on its own.
MaxSourceRows == 2

\* Most new rows of one source in a batch handed to start.
MaxNewRows == 2

\* Most rows of the stored master table when start runs.
MaxKnown == 1

SeqsUpTo(S, n) == UNION {[1..m -> S] : m \in 0..n}

Frame(cols, rows) == [cols |-> cols, rows |-> rows]

\* The row with cells vals under the columns cols.
RowOf(cols, vals) ==
    [c \in Range(cols) |-> vals[CHOOSE i \in 1..Len(cols) : cols[i] = c]]

Tuple(e, n) == RowOf(MATCH_FIELDS, <<e, n>>)

\* Normalized (email, name) tuples.
TuplePool ==
    { Tuple(<<"a">>, <<"j", " ", "d">>),
      Tuple(<<"b">>, <<"j", " ", "d">>),
      Tuple(<<"a">>, <<"n", "a", "n">>) }

NoParts == [matched |-> EmptyFrame(MATCH_FIELDS),
            onlyA   |-> EmptyFrame(MATCH_FIELDS),
            onlyB   |-> EmptyFrame(MATCH_FIELDS)]

LinkCols == <<"_id", "salesforcecontacts_id", "volgistics_id">>

\* Master rows handed to coalesce_fields_by_id: the foreign keys of one
\* identity (the row's _id is set from its position).
LinkPool ==
    { RowOf(LinkCols, <<NaN, <<"1">>, <<"7">>>>),
      RowOf(LinkCols, <<NaN, <<"2">>, <<"7">>>>),
      RowOf(LinkCols, <<NaN, <<"2">>, NaN>>),
      RowOf(LinkCols, <<NaN, NaN, NaN>>) }

Digit(i) == CASE i = 1 -> "1" [] i = 2 -> "2" [] i = 3 -> "3" [] OTHER -> "9"

\* The master table with rows `links`: _id is the row's position.
MasterOf(cols, links) ==
    Frame(cols, [i \in 1..Len(links) |-> SetColumn(links[i], "_id", <<Digit(i)>>)])

SfCols == <<"salesforcecontacts_id", "email", "name">>

SfPool ==
    { RowOf(SfCols, <<<<"1">>, <<"a">>, NaN>>),
      RowOf(SfCols, <<<<"1">>, NaN, <<"J", " ", "D">>>>),
      RowOf(SfCols, <<<<"2">>, <<"b">>, <<"j", " ", "d">>>>) }

VolCols == <<"volgistics_id", "email", "name">>

VolPool ==
    { RowOf(VolCols, <<<<"7">>, <<"c">>, <<"d">>>>),
      RowOf(VolCols, <<<<"7">>, <<"z">>, NaN>>) }

\* New rows of a batch, per source.
NewPool(source_name) ==
    CASE source_name = "salesforcecontacts" ->
            { RowOf(RawCols(source_name), <<<<"1">>, <<" ", "A">>, <<"J">>, <<"D">>>>),
              RowOf(RawCols(source_name), <<<<"2">>, <<"a">>, <<"j">>, <<"d">>>>),
              RowOf(RawCols(source_name), <<<<"3">>, <<"b">>, <<"J">>, NaN>>) }
      [] source_name = "volgistics" ->
            { RowOf(RawCols(source_name), <<<<"7">>, <<"A", " ">>, <<"J", " ", "D">>>>),
              RowOf(RawCols(source_name), <<<<"8">>, <<"c">>, <<"J", " ", "D">>>>) }
      [] source_name = "petpoint" ->
            { RowOf(RawCols(source_name), <<<<"5">>, <<"B">>, NaN>>) }
      [] OTHER ->
            { RowOf(RawCols(source_name), <<<<"1">>, <<"z">>, <<"z">>>>) }

\* The stored source tables: salesforcecontacts row 9 is archived.
StoredSources ==
    [source_name \in {"salesforcecontacts", "volgistics", "petpoint"} |->
        Frame(StoreCols(source_name),
            CASE source_name = "salesforcecontacts" ->
                    << RowOf(StoreCols(source_name),
                             <<<<"1">>, <<"A">>, <<"J">>, <<"D">>, <<"1">>, NaN>>),
                       RowOf(StoreCols(source_name),
                             <<<<"9">>, <<"z">>, <<"J">>, <<"D">>, <<"1">>, <<"2">>>>) >>
              [] source_name = "volgistics" ->
                    << RowOf(StoreCols(source_name),
                             <<<<"7">>, <<"a", " ">>, <<"J", " ", "D">>, <<"1">>, NaN>>),
                       RowOf(StoreCols(source_name),
                             <<<<"8">>, <<"c">>, <<"j", " ", "d">>, <<"1">>, NaN>>) >>
              [] source_name = "petpoint" ->
                    << RowOf(StoreCols(source_name),
                             <<<<"5">>, <<"B">>, NaN, <<"1">>, NaN>>) >>)]

\* Stored master rows: linked to salesforcecontacts 1, and to the archived
\* salesforcecontacts 9 together with petpoint 5.
KnownPool ==
    { RowOf(MasterCols, <<NaN, <<"1">>, NaN, NaN, <<"1">>, NaN>>),
      RowOf(MasterCols, <<NaN, <<"9">>, NaN, <<"5">>, <<"1">>, NaN>>) }

\* A source name outside MATCH_PRIORITY and outside the registry.
OtherSource == "shelterluvpeople"

\* The sources the store holds a table of.
PrioritySources == {"salesforcecontacts", "volgistics", "petpoint"}

BatchSources == PrioritySources \cup {OtherSource}

\* new_rows with the sources `present`, each with its list of rows.
NewRowsOf(present, lists) == [source_name \in present |-> lists[source_name]]

\* updated_rows: no source, a source with an empty list, a source with a row.
UpdatedRowsPool ==
    { <<>>,
      [s \in {"volgistics"} |-> <<>>],
      [s \in {"volgistics"} |->
          <<RowOf(RawCols(s), <<<<"8">>, <<"c">>, <<"J", " ", "D">>>>)>>] }

\* The registry, whole or without an entry for petpoint.
RegistryPool ==
    { DATASOURCE_MAPPING,
      [s \in {"salesforcecontacts", "volgistics"} |-> DATASOURCE_MAPPING[s]] }

NoFrame == [cols |-> <<>>, rows |-> <<>>]

NoResult == [new_matches |-> <<>>, updated_matches |-> <<>>]

\* ------------------------------------------------------------------------
\* Specification SpecJoin: one call of join_on_all_columns
\* ------------------------------------------------------------------------

JoinCall ==
    /\ jpc = "call"
    /\ jOut' = join_on_all_columns(jA, jB)
    /\ jpc' = "done"
    /\ UNCHANGED <<jA, jB>>
    /\ UNCHANGED <<coalesceVars, startVars>>

JoinNext == JoinCall

\* ------------------------------------------------------------------------
\* Specification SpecCoalesce: one call of coalesce_fields_by_id with two
\* source tables, salesforcecontacts before volgistics
\* ------------------------------------------------------------------------

\* lines 53-55
CoalesceCopy ==
    /\ cpc = "copy"
    /\ cDf' = BlankFields(cMaster, MATCH_FIELDS)
    /\ cK' = 1
    /\ cpc' = "tables"
    /\ UNCHANGED <<cMaster, cTables>>
    /\ UNCHANGED <<joinVars, startVars>>

\* lines 56-63, one iteration
CoalesceLoop ==
    /\ cpc = "tables"
    /\ cK <= Len(cTables)
    /\ cDf' = CoalesceTable(cDf, cMaster, cTables[cK], MATCH_FIELDS)
    /\ cK' = cK + 1
    /\ UNCHANGED <<cpc, cMaster, cTables>>
    /\ UNCHANGED <<joinVars, startVars>>

\* line 64
CoalesceReturn ==
    /\ cpc = "tables"
    /\ cK > Len(cTables)
    /\ cpc' = "done"
    /\ UNCHANGED <<cMaster, cTables, cDf, cK>>
    /\ UNCHANGED <<joinVars, startVars>>

CoalesceNext == CoalesceCopy \/ CoalesceLoop \/ CoalesceReturn

\* ------------------------------------------------------------------------
\* Specification Spec: one call of start
\* ------------------------------------------------------------------------

\* HasUpdates with the threshold off by one.
HasUpdatesOffByOne(rows) == Cardinality(DOMAIN rows["updated_rows"]) > 1

\* len(added_or_updated_rows['updated_rows']) > 0
HasUpdates(rows) == Cardinality(DOMAIN rows["updated_rows"]) > 0

\* lines 112-116
Check ==
    /\ pc = "check"
    /\ IF HasUpdates(batch)
       THEN /\ pc' = "raised"
            /\ error' = "NotImplementedError"
            /\ UNCHANGED <<new_df, k>>
       ELSE /\ pc' = "assemble"
            /\ new_df' = EmptyFrame(MATCH_FIELDS)
            /\ k' = 1
            /\ UNCHANGED error
    /\ UNCHANGED <<batch, registry, store, storeReads, master_df, source_dfs,
                   parts, result>>
    /\ UNCHANGED <<joinVars, coalesceVars>>

\* table_cols: MATCH_FIELDS with table_csv_key appended
TableCols(table_csv_key) == Append(MATCH_FIELDS, table_csv_key)

\* lines 121-132 raise KeyError: the source has no registry entry, or the
\* frame of its rows lacks a column that is read.
NewTableRaises(mapping, rows, table_name) ==
    IF table_name \notin DOMAIN mapping THEN TRUE
    ELSE LET df == DataFrameOf(rows[table_name], RawCols(table_name))
             fm == FieldMapping(mapping, table_name)
         IN  IF ReassignRaises(df, fm) THEN TRUE
             ELSE ~CanSelect(_reassign_combined_fields(df, fm),
                             TableCols(_get_table_primary_key(mapping, table_name)))

\* lines 121-132: new_table_data
NewTableData(mapping, rows, table_name) ==
    LET table_csv_key == _get_table_primary_key(mapping, table_name)
        table_master_key == _get_master_primary_key(table_name)
        df == DataFrameOf(rows[table_name], RawCols(table_name))
        combined == _reassign_combined_fields(df, FieldMapping(mapping, table_name))
        selected == Select(combined, TableCols(table_csv_key))
        normalized == normalize_table_for_comparison(selected, MATCH_FIELDS)
    IN  Rename(normalized, table_csv_key, table_master_key)

\* lines 117-120: a source without an entry in new_rows is passed over
AssembleSkip ==
    /\ pc = "assemble"
    /\ k <= Len(MATCH_PRIORITY)
    /\ MATCH_PRIORITY[k] \notin DOMAIN batch["new_rows"]
    /\ k' = k + 1
    /\ UNCHANGED <<pc, batch, registry, store, storeReads, new_df, master_df,
                   source_dfs, parts, result, error>>
    /\ UNCHANGED <<joinVars, coalesceVars>>

\* lines 121-133: the source's rows are merged into new_df
AssembleMerge ==
    /\ pc = "assemble"
    /\ k <= Len(MATCH_PRIORITY)
    /\ MATCH_PRIORITY[k] \in DOMAIN batch["new_rows"]
    /\ ~NewTableRaises(registry, batch["new_rows"], MATCH_PRIORITY[k])
    /\ new_df' = Merge(new_df,
                       NewTableData(registry, batch["new_rows"], MATCH_PRIORITY[k]),
                       "outer")
    /\ k' = k + 1
    /\ UNCHANGED <<pc, batch, registry, store, storeReads, master_df,
                   source_dfs, parts, result, error>>
    /\ UNCHANGED <<joinVars, coalesceVars>>

\* lines 121-132: KeyError
AssembleRaise ==
    /\ pc = "assemble"
    /\ k <= Len(MATCH_PRIORITY)
    /\ MATCH_PRIORITY[k] \in DOMAIN batch["new_rows"]
    /\ NewTableRaises(registry, batch["new_rows"], MATCH_PRIORITY[k])
    /\ pc' = "raised"
    /\ error' = "KeyError"
    /\ UNCHANGED <<batch, registry, store, storeReads, k, new_df, master_df,
                   source_dfs, parts, result>>
    /\ UNCHANGED <<joinVars, coalesceVars>>

\* line 137
ReadMaster ==
    /\ pc = "assemble"
    /\ k > Len(MATCH_PRIORITY)
    /\ storeReads' = Append(storeReads, "master")
    /\ master_df' = Drop(store["master"], <<"created_date", "archived_date">>)
    /\ source_dfs' = <<>>
    /\ k' = 1
    /\ pc' = "sources"
    /\ UNCHANGED <<batch, registry, store, new_df, parts, result, error>>
    /\ UNCHANGED <<joinVars, coalesceVars>>

\* lines 139-142, for one table of MATCH_PRIORITY
SourceDf(mapping, connection, table) ==
    Rename(_reassign_combined_fields(
                _get_most_recent_table_records_from_postgres(connection, table),
                FieldMapping(mapping, table)),
           _get_table_primary_key(mapping, table),
           _get_master_primary_key(table))

\* lines 138-144, one table: the table is read, then its registry entry
ReadSource ==
    /\ pc = "sources"
    /\ k <= Len(MATCH_PRIORITY)
    /\ storeReads' = Append(storeReads, MATCH_PRIORITY[k])
    /\ IF MATCH_PRIORITY[k] \in DOMAIN registry
       THEN /\ source_dfs' = Append(source_dfs,
                                    SourceDf(registry, store, MATCH_PRIORITY[k]))
            /\ k' = k + 1
            /\ UNCHANGED <<pc, error>>
       ELSE /\ pc' = "raised"
            /\ error' = "KeyError"
            /\ UNCHANGED <<source_dfs, k>>
    /\ UNCHANGED <<batch, registry, store, new_df, master_df, parts, result>>
    /\ UNCHANGED <<joinVars, coalesceVars>>

\* lines 145-146
Rebuild ==
    /\ pc = "sources"
    /\ k > Len(MATCH_PRIORITY)
    /\ master_df' = normalize_table_for_comparison(
                        coalesce_fields_by_id(master_df, source_dfs, MATCH_FIELDS),
                        MATCH_FIELDS)
    /\ pc' = "partition"
    /\ UNCHANGED <<batch, registry, store, storeReads, k, new_df, source_dfs,
                   parts, result, error>>
    /\ UNCHANGED <<joinVars, coalesceVars>>

\* line 149
Partition ==
    /\ pc = "partition"
    /\ parts' = join_on_all_columns(Select(master_df, MATCH_FIELDS),
                                    Select(new_df, MATCH_FIELDS))
    /\ pc' = "recover"
    /\ UNCHANGED <<batch, registry, store, storeReads, k, new_df, master_df,
                   source_dfs, result, error>>
    /\ UNCHANGED <<joinVars, coalesceVars>>

\* NewMasterRows with the join back run as how='outer'.
NewMasterRowsOuter(right_only, candidates) ==
    Drop(Merge(right_only, candidates, "outer"), MATCH_FIELDS)

\* NewMasterRows without the drop of the tracked fields.
NewMasterRowsKeepFields(right_only, candidates) ==
    Merge(right_only, candidates, "inner")

\* line 152
NewMasterRows(right_only, candidates) ==
    Drop(Merge(right_only, candidates, "inner"), MATCH_FIELDS)

\* lines 152-160
Return ==
    /\ pc = "recover"
    /\ result' = [new_matches |-> NewMasterRows(parts.onlyB, new_df).rows,
                  updated_matches |-> <<>>]
    /\ pc' = "returned"
    /\ UNCHANGED <<batch, registry, store, storeReads, k, new_df, master_df,
                   source_dfs, parts, error>>
    /\ UNCHANGED <<joinVars, coalesceVars>>

Next ==
    \/ Check
    \/ AssembleSkip
    \/ AssembleMerge
    \/ AssembleRaise
    \/ ReadMaster
    \/ ReadSource
    \/ Rebuild
    \/ Partition
    \/ Return

vars == <<joinVars, coalesceVars, startVars>>

\* ------------------------------------------------------------------------
\* Initial states
\* ------------------------------------------------------------------------

\* A batch of additions of the sources of MATCH_PRIORITY, under the full
\* registry; or a batch of at most one row per source, possibly with
\* updates, with a source the registry does not know, or under a registry
\* without petpoint.
Init ==
    /\ pc = "check"
    /\ \E present \in SUBSET BatchSources,
          sf \in SeqsUpTo(NewPool("salesforcecontacts"), MaxNewRows),
          vol \in SeqsUpTo(NewPool("volgistics"), MaxNewRows),
          pp \in SeqsUpTo(NewPool("petpoint"), MaxNewRows),
          other \in SeqsUpTo(NewPool(OtherSource), 1),
          updates \in UpdatedRowsPool,
          mapping \in RegistryPool :
          LET lists == [s \in BatchSources |->
                          CASE s = "salesforcecontacts" -> sf
                            [] s = "volgistics" -> vol
                            [] s = "petpoint" -> pp
                            [] OTHER -> other]
          IN  /\ \A s \in BatchSources \ present : lists[s] = <<>>
              /\ OtherSource \in present => lists[OtherSource] # <<>>
              /\ \/ /\ updates = <<>>
                    /\ mapping = DATASOURCE_MAPPING
                    /\ OtherSource \notin present
                 \/ \A s \in BatchSources : Len(lists[s]) <= 1
              /\ batch = [key \in {"new_rows", "updated_rows"} |->
                            IF key = "new_rows" THEN NewRowsOf(present, lists)
                            ELSE updates]
              /\ registry = mapping
    /\ \E known \in SeqsUpTo(KnownPool, MaxKnown) :
          store = [table \in {"master"} \cup DOMAIN StoredSources |->
                      IF table = "master" THEN MasterOf(MasterCols, known)
                      ELSE StoredSources[table]]
    /\ storeReads = <<>>
    /\ k = 0
    /\ new_df = NoFrame
    /\ master_df = NoFrame
    /\ source_dfs = <<>>
    /\ parts = NoParts
    /\ result = NoResult
    /\ error = "none"
    /\ jpc = "idle"
    /\ jA = EmptyFrame(MATCH_FIELDS)
    /\ jB = EmptyFrame(MATCH_FIELDS)
    /\ jOut = NoParts
    /\ cpc = "idle"
    /\ cMaster = EmptyFrame(LinkCols)
    /\ cTables = <<>>
    /\ cDf = EmptyFrame(LinkCols)
    /\ cK = 0

JoinInit ==
    /\ jpc = "call"
    /\ jA \in {Frame(MATCH_FIELDS, r) : r \in SeqsUpTo(TuplePool, MaxJoinRows)}
    /\ jB \in {Frame(MATCH_FIELDS, r) : r \in SeqsUpTo(TuplePool, MaxJoinRows)}
    /\ jOut = NoParts
    /\ cpc = "idle"
    /\ cMaster = EmptyFrame(LinkCols)
    /\ cTables = <<>>
    /\ cDf = EmptyFrame(LinkCols)
    /\ cK = 0
    /\ pc = "idle"
    /\ batch = [key \in {"new_rows", "updated_rows"} |-> <<>>]
    /\ registry = DATASOURCE_MAPPING
    /\ store = [table \in {"master"} \cup DOMAIN StoredSources |->
                  IF table = "master" THEN MasterOf(MasterCols, <<>>)
                  ELSE StoredSources[table]]
    /\ storeReads = <<>>
    /\ k = 0
    /\ new_df = NoFrame
    /\ master_df = NoFrame
    /\ source_dfs = <<>>
    /\ parts = NoParts
    /\ result = NoResult
    /\ error = "none"

CoalesceInit ==
    /\ cpc = "copy"
    /\ cMaster \in {MasterOf(LinkCols, l) : l \in SeqsUpTo(LinkPool, MaxMasterRows)}
    /\ \E sf \in SeqsUpTo(SfPool, MaxSourceRows),
          vol \in SeqsUpTo(VolPool, MaxSourceRows) :
          cTables = <<Frame(SfCols, sf), Frame(VolCols, vol)>>
    /\ cDf = EmptyFrame(LinkCols)
    /\ cK = 0
    /\ jpc = "idle"
    /\ jA = EmptyFrame(MATCH_FIELDS)
    /\ jB = EmptyFrame(MATCH_FIELDS)
    /\ jOut = NoParts
    /\ pc = "idle"
    /\ batch = [key \in {"new_rows", "updated_rows"} |-> <<>>]
    /\ registry = DATASOURCE_MAPPING
    /\ store = [table \in {"master"} \cup DOMAIN StoredSources |->
                  IF table = "master" THEN MasterOf(MasterCols, <<>>)
                  ELSE StoredSources[table]]
    /\ storeReads = <<>>
    /\ k = 0
    /\ new_df = NoFrame
    /\ master_df = NoFrame
    /\ source_dfs = <<>>
    /\ parts = NoParts
    /\ result = NoResult
    /\ error = "none"

Spec == Init /\ [][Next]_vars

SpecJoin == JoinInit /\ [][JoinNext]_vars

SpecCoalesce == CoalesceInit /\ [][CoalesceNext]_vars

\* ------------------------------------------------------------------------
\* Properties of join_on_all_columns (under SpecJoin)
\* ------------------------------------------------------------------------

\* Number of rows of df equal to t.
Count(df, t) == Cardinality({i \in 1..Len(df.rows) : df.rows[i] = t})

Min(a, b) == IF a < b THEN a ELSE b

Rows(df) == Range(df.rows)

\* C3 (as stated): the partitions hold min(cA, cB), cA - min and cB - min
\* copies of every tuple occurring cA times in A and cB times in B.
C3_MinCopies ==
    jpc = "done" =>
        \A t \in TuplePool :
            LET cA == Count(jA, t)
                cB == Count(jB, t)
            IN  /\ Count(jOut.matched, t) = Min(cA, cB)
                /\ Count(jOut.onlyA, t) = cA - Min(cA, cB)
                /\ Count(jOut.onlyB, t) = cB - Min(cA, cB)

\* C3 (amended): the join is relational.  A tuple occurring cA times in A
\* and cB times in B has cA * cB copies in matched; onlyA holds its cA
\* copies only when cB = 0, and onlyB its cB copies only when cA = 0.
C3_ProductCopies ==
    jpc = "done" =>
        \A t \in TuplePool :
            LET cA == Count(jA, t)
                cB == Count(jB, t)
            IN  /\ Count(jOut.matched, t) = cA * cB
                /\ Count(jOut.onlyA, t) = (IF cB = 0 THEN cA ELSE 0)
                /\ Count(jOut.onlyB, t) = (IF cA = 0 THEN cB ELSE 0)

\* A row twice in A and once in B: two matched rows and no A-only remainder.
C3_Witness ==
    /\ jpc = "done"
    /\ \E t \in TuplePool :
          /\ Count(jA, t) = 2 /\ Count(jB, t) = 1
          /\ Count(jOut.matched, t) = 2 /\ Count(jOut.onlyA, t) = 0

\* C4: the three partitions are pairwise disjoint; a tuple is matched iff
\* it occurs in A and in B, A-only iff in A and not in B, B-only iff in B
\* and not in A; so every tuple of A or B lands in exactly one partition.
C4_Partition ==
    jpc = "done" =>
        /\ Rows(jOut.matched) = Rows(jA) \cap Rows(jB)
        /\ Rows(jOut.onlyA) = Rows(jA) \ Rows(jB)
        /\ Rows(jOut.onlyB) = Rows(jB) \ Rows(jA)
        /\ Rows(jOut.matched) \cap Rows(jOut.onlyA) = {}
        /\ Rows(jOut.matched) \cap Rows(jOut.onlyB) = {}
        /\ Rows(jOut.onlyA) \cap Rows(jOut.onlyB) = {}
        /\ jOut.matched.cols = MATCH_FIELDS
        /\ jOut.onlyA.cols = MATCH_FIELDS
        /\ jOut.onlyB.cols = MATCH_FIELDS

\* master {jane} against candidates {jane, new person}.
C4_Witness ==
    /\ jpc = "done"
    /\ \E jane, newp \in TuplePool :
          /\ jane # newp
          /\ jA.rows = <<jane>>
          /\ Rows(jB) = {jane, newp} /\ Len(jB.rows) = 2
          /\ jOut.matched.rows = <<jane>>
          /\ jOut.onlyA.rows = <<>>
          /\ jOut.onlyB.rows = <<newp>>

\* ------------------------------------------------------------------------
\* Properties of coalesce_fields_by_id (under SpecCoalesce)
\* ------------------------------------------------------------------------

\* The rows of source table tbl that master row m links to: equal on the
\* foreign-key column the two tables share, the key not being null.
Linked(m, master_table, tbl) ==
    { r \in Range(tbl.rows) :
        \A c \in Range(MergeOn(master_table, tbl)) : r[c] = m[c] /\ m[c] # NaN }

\* The non-missing values of field f that table tbl holds for master row m.
Held(m, master_table, tbl, f) ==
    { r[f] : r \in {x \in Linked(m, master_table, tbl) : x[f] # NaN} }

\* First-non-null-wins: the values of the first table, in the listed order,
\* that holds one for master row m; unknown if no table does.
RECURSIVE FirstHeld(_, _, _, _)
FirstHeld(m, master_table, tables, f) ==
    IF tables = <<>> THEN {NaN}
    ELSE IF Held(m, master_table, Head(tables), f) # {}
    THEN Held(m, master_table, Head(tables), f)
    ELSE FirstHeld(m, master_table, Tail(tables), f)

Reversed(s) == [i \in 1..Len(s) |-> s[Len(s) + 1 - i]]

ReversedRows(tbl) == [cols |-> tbl.cols, rows |-> Reversed(tbl.rows)]

\* C5 (as stated): every tracked field of every master row holds the value
\* of the highest-priority source table whose row linked to that master row
\* has one, and is unknown if none has; and the result is the same whatever
\* the order of the rows of the source tables and of the master table.
C5_FirstNonNullWins ==
    cpc = "done" =>
        /\ \A i \in 1..Len(cMaster.rows) : \A f \in Range(MATCH_FIELDS) :
              cDf.rows[i][f] \in FirstHeld(cMaster.rows[i], cMaster, cTables, f)
        /\ coalesce_fields_by_id(
              cMaster, [j \in 1..Len(cTables) |-> ReversedRows(cTables[j])],
              MATCH_FIELDS) = cDf
        /\ coalesce_fields_by_id(ReversedRows(cMaster), cTables, MATCH_FIELDS)
              = ReversedRows(cDf)

\* C10 (as stated): the result has one row per master row, in the master's
\* order and with the master's columns unchanged, and every non-missing
\* tracked field of a result row is the value of that field in a source row
\* whose primary key equals that master row's foreign key, also when a
\* foreign key links to several source rows.
C10_ValuesFromLinkedRows ==
    cpc = "done" =>
        /\ Len(cDf.rows) = Len(cMaster.rows)
        /\ \A i \in 1..Len(cMaster.rows) :
              /\ \A c \in Range(cMaster.cols) : cDf.rows[i][c] = cMaster.rows[i][c]
              /\ \A f \in Range(MATCH_FIELDS) :
                    cDf.rows[i][f] # NaN =>
                        \E j \in 1..Len(cTables) :
                            cDf.rows[i][f] \in Held(cMaster.rows[i], cMaster, cTables[j], f)

\* ------------------------------------------------------------------------
\* Properties of start (under Spec)
\* ------------------------------------------------------------------------

\* Some source of the batch has updated rows.
UpdatesGiven ==
    \E s \in DOMAIN batch["updated_rows"] : batch["updated_rows"][s] # <<>>

\* C1: when updated_rows is non-empty for some source, start raises
\* NotImplementedError before any table of the store is read and before any
\* candidate-table work, and returns no result.
C1_UpdatesRejected ==
    UpdatesGiven =>
        /\ pc \in {"check", "raised"}
        /\ pc = "raised" => error = "NotImplementedError"
        /\ storeReads = <<>>
        /\ new_df = NoFrame
        /\ master_df = NoFrame
        /\ source_dfs = <<>>
        /\ result = NoResult

C1_Witness ==
    /\ UpdatesGiven
    /\ pc = "raised"
    /\ error = "NotImplementedError"
    /\ batch["new_rows"] # <<>>

\* The tracked-field tuple of a row.
TupleOf(r) == [f \in Range(MATCH_FIELDS) |-> r[f]]

\* The row without its tracked fields: its foreign keys.
KeysOf(r) == [c \in (DOMAIN r) \ Range(MATCH_FIELDS) |-> r[c]]

\* No row of the rebuilt, normalized master has the tracked fields of r.
AbsentFromMaster(r) ==
    \A i \in 1..Len(master_df.rows) : TupleOf(master_df.rows[i]) # TupleOf(r)

\* C2: a row of the unified candidate table contributes a record to
\* new_matches iff its normalized (email, name) equals that of no row of
\* the rebuilt, normalized master; a single new row of the highest-priority
\* source that matches no master row yields exactly its foreign key; and
\* updated_matches is empty.
C2_NewIffAbsentFromMaster ==
    pc = "returned" =>
        /\ \A i \in 1..Len(new_df.rows) :
              (KeysOf(new_df.rows[i]) \in Range(result.new_matches))
                  <=> AbsentFromMaster(new_df.rows[i])
        /\ \A rec \in Range(result.new_matches) :
              \E i \in 1..Len(new_df.rows) : rec = KeysOf(new_df.rows[i])
        /\ result.updated_matches = <<>>
        /\ ( /\ DOMAIN batch["new_rows"] = {MATCH_PRIORITY[1]}
             /\ Len(batch["new_rows"][MATCH_PRIORITY[1]]) = 1
             /\ AbsentFromMaster(new_df.rows[1]) )
           => result.new_matches =
                 << [c \in {"salesforcecontacts_id"} |->
                        batch["new_rows"][MATCH_PRIORITY[1]][1]["contact_id"]] >>

\* One new salesforcecontacts row beside a master row it does not match.
C2_Witness ==
    /\ pc = "returned"
    /\ DOMAIN batch["new_rows"] = {"salesforcecontacts"}
    /\ Len(batch["new_rows"]["salesforcecontacts"]) = 1
    /\ Len(master_df.rows) = 1
    /\ Len(result.new_matches) = 1

\* C2, second witness: a candidate that matches a master row is left out
\* while another one is reported.
C2_WitnessMatched ==
    /\ pc = "returned"
    /\ \E i \in 1..Len(new_df.rows) : ~AbsentFromMaster(new_df.rows[i])
    /\ \E i \in 1..Len(new_df.rows) : AbsentFromMaster(new_df.rows[i])

\* C6 (as stated): a source of the priority order without new rows this
\* run, absent from new_rows or present with an empty list, is passed over
\* without an error while the candidate table is assembled.
C6_NoRowsSkipped ==
    \A i \in 1..Len(MATCH_PRIORITY) :
        ( \/ MATCH_PRIORITY[i] \notin DOMAIN batch["new_rows"]
          \/ batch["new_rows"][MATCH_PRIORITY[i]] = <<>> )
        => ~(pc = "raised" /\ error = "KeyError" /\ storeReads = <<>> /\ k = i
             /\ MATCH_PRIORITY[i] \in DOMAIN registry)

\* new_rows names a source without a registry entry.
UnregisteredGiven ==
    \E s \in DOMAIN batch["new_rows"] : s \notin DOMAIN registry

\* C7 (as stated): a batch, free of updates, whose new_rows names a source
\* without a registry entry never returns a result: no such source is
\* silently ignored.
C7_UnregisteredIsFatal ==
    (UnregisteredGiven /\ ~UpdatesGiven /\ batch["updated_rows"] = <<>>)
        => pc # "returned"

\* C7 (amended): a batch without updated_rows whose new_rows names a source
\* of the priority order that has no registry entry ends in KeyError and
\* returns no result; a source outside the priority order is never looked
\* up, and none of its rows reaches the candidate table.
C7_UnregisteredPriorityIsFatal ==
    /\ ( /\ \E s \in PrioritySources \cap DOMAIN batch["new_rows"] :
                s \notin DOMAIN registry
         /\ batch["updated_rows"] = <<>> )
       => /\ pc # "returned"
          /\ result = NoResult
          /\ pc = "raised" => error = "KeyError"
    /\ Range(new_df.cols) \subseteq
          Range(MATCH_FIELDS) \cup {_get_master_primary_key(s) : s \in PrioritySources}

\* petpoint rows under a registry without petpoint: KeyError while the
\* candidate table is assembled.
C7_Witness ==
    /\ "petpoint" \in DOMAIN batch["new_rows"]
    /\ "petpoint" \notin DOMAIN registry
    /\ batch["updated_rows"] = <<>>
    /\ pc = "raised"
    /\ error = "KeyError"
    /\ storeReads = <<>>

\* The candidate rows of source s: its new rows, composed and normalized.
Candidates(s) == NewTableData(registry, batch["new_rows"], s).rows

\* The priority sources that handed in new rows.
Contributing == PrioritySources \cap DOMAIN batch["new_rows"]

\* C8: no record of new_matches holds a tracked field, and every new row
\* whose identity is absent from the master has a record carrying its
\* foreign key; new rows of two sources with equal normalized tracked fields
\* are merged into a record that carries both foreign keys.
C8_ForeignKeysOnly ==
    pc = "returned" =>
        /\ \A rec \in Range(result.new_matches) :
              (DOMAIN rec) \cap Range(MATCH_FIELDS) = {}
        /\ \A s \in Contributing : \A c \in Range(Candidates(s)) :
              AbsentFromMaster(c) =>
                  \E rec \in Range(result.new_matches) :
                      /\ _get_master_primary_key(s) \in DOMAIN rec
                      /\ rec[_get_master_primary_key(s)] = c[_get_master_primary_key(s)]
        /\ \A s1, s2 \in Contributing :
              \A c1 \in Range(Candidates(s1)), c2 \in Range(Candidates(s2)) :
                  (s1 # s2 /\ TupleOf(c1) = TupleOf(c2) /\ AbsentFromMaster(c1)) =>
                      /\ \E rec \in Range(result.new_matches) :
                            /\ rec[_get_master_primary_key(s1)] = c1[_get_master_primary_key(s1)]
                            /\ rec[_get_master_primary_key(s2)] = c2[_get_master_primary_key(s2)]
                      /\ \A rec \in Range(result.new_matches) :
                            rec[_get_master_primary_key(s1)] = c1[_get_master_primary_key(s1)]
                                => rec[_get_master_primary_key(s2)] # NaN

\* A record that carries a salesforcecontacts key and a volgistics key.
C8_Witness ==
    /\ pc = "returned"
    /\ \E rec \in Range(result.new_matches) :
          /\ {"salesforcecontacts_id", "volgistics_id"} \subseteq DOMAIN rec
          /\ rec["salesforcecontacts_id"] # NaN
          /\ rec["volgistics_id"] # NaN

\* C9 (as stated): new_matches holds exactly one record per row of the
\* unified candidate table whose tracked fields are absent from the master.
C9_OneRecordPerCandidate ==
    pc = "returned" =>
        Len(result.new_matches) =
            Cardinality({i \in 1..Len(new_df.rows) : AbsentFromMaster(new_df.rows[i])})

====
